---------------------------- MODULE Spec2Model ----------------------------
(***************************************************************************)
(* Model of the image pipeline of the Social Media Image Optimizer         *)
(* (src/utils.py): optimize_for_platform, smart_crop_gemini,               *)
(* process_with_gemini, sanitize_text and process_image_complete.          *)
(*                                                                         *)
(* Images are modelled by their pixel dimensions and colour mode, texts by *)
(* sequences of chunks ("\n" is the line break, every other chunk is free  *)
(* of line breaks), the file system by a function from paths to contents.  *)
(* Floating-point arithmetic is modelled by exact rational arithmetic; the *)
(* two places where IEEE rounding can differ from it (a product that is an *)
(* exact integer may come out one ulp low, an aspect difference of exactly *)
(* 0.01 may compare either way) are nondeterministic choices.              *)
(***************************************************************************)
EXTENDS Integers, Sequences, FiniteSets, TLC

(***************************************************************************)
(* Bounds of the model.                                                    *)
(***************************************************************************)
MaxDim == 2000
NumRuns == 2
MaxTime == 2
Scale == 10

(***************************************************************************)
(* Program constants.                                                      *)
(***************************************************************************)
MIN_RESOLUTION_HEIGHT == 720

RegisteredPlatforms ==
    {"instagram", "instagram_story", "twitter", "linkedin", "facebook",
     "facebook_story", "pinterest", "youtube_thumbnail"}

SOCIAL_MEDIA_SIZES(p) ==
    CASE p = "instagram"         -> <<1080, 1080>>
      [] p = "instagram_story"   -> <<1080, 1920>>
      [] p = "twitter"           -> <<1600, 900>>
      [] p = "linkedin"          -> <<1200, 627>>
      [] p = "facebook"          -> <<1080, 1920>>
      [] p = "facebook_story"    -> <<1080, 1920>>
      [] p = "pinterest"         -> <<1000, 1500>>
      [] p = "youtube_thumbnail" -> <<1280, 720>>

\* Strings a caller can pass as platform: the registered keys, a key in
\* another letter case and an unknown name.
Platforms == RegisteredPlatforms \cup {"Instagram", "tiktok"}

\* str.lower() on the platform strings of the model.
Lower(p) == IF p = "Instagram" THEN "instagram" ELSE p

\* platform.replace("_", " ").title()
DisplayName(p) ==
    CASE p = "instagram"         -> "Instagram"
      [] p = "instagram_story"   -> "Instagram Story"
      [] p = "twitter"           -> "Twitter"
      [] p = "linkedin"          -> "Linkedin"
      [] p = "facebook"          -> "Facebook"
      [] p = "facebook_story"    -> "Facebook Story"
      [] p = "pinterest"         -> "Pinterest"
      [] p = "youtube_thumbnail" -> "Youtube Thumbnail"
      [] p = "Instagram"         -> "Instagram"
      [] p = "tiktok"            -> "Tiktok"

(***************************************************************************)
(* Images.                                                                 *)
(***************************************************************************)
Abs(x) == IF x < 0 THEN 0 - x ELSE x

Dims == {1, 2, 99, 100, 101, 719, 720, 721, 1080, 1200, 1920, MaxDim}
Modes == {"RGB", "RGBA", "P"}

Img(w, h, m) == [w |-> w, h |-> h, mode |-> m]

\* int(k * (w / h)): the exact floor, or one less when the exact product is
\* an integer and the floating-point product falls just below it.
IntMulAspect(k, w, h, low) ==
    LET q == (k * w) \div h
    IN  IF (k * w) % h = 0 /\ low THEN q - 1 ELSE q

\* int(k / (w / h))
IntDivAspect(k, w, h, low) ==
    LET q == (k * h) \div w
    IN  IF (k * h) % w = 0 /\ low THEN q - 1 ELSE q

\* abs(img_aspect - target_aspect) > 0.01, with w/h and tw/th the aspects.
AspectDiffers(w, h, tw, th, tie) ==
    LET d == Abs(w * th - tw * h) * 100
    IN  IF d = h * th THEN tie ELSE d > h * th

\* img_aspect > target_aspect
Wider(w, h, tw, th) == w * th > tw * h

\* Image.resize((w, h)): raises unless both are positive.
CanResize(w, h) == w > 0 /\ h > 0
Resize(img, w, h) == [img EXCEPT !.w = w, !.h = h]

\* Image.crop((left, top, right, bottom)): the result has the size of the
\* box, whether or not the box lies inside the image.
Crop(img, left, top, right, bottom) ==
    [img EXCEPT !.w = right - left, !.h = bottom - top]

\* image.convert("RGB") for the modes RGBA and P.
ConvertMode(img) ==
    IF img.mode \in {"RGBA", "P"} THEN [img EXCEPT !.mode = "RGB"] ELSE img

(***************************************************************************)
(* optimize_for_platform, step by step.  a is the image whose aspect ratio *)
(* img_aspect was taken (the image before the minimum-resolution step).   *)
(***************************************************************************)
PlatformSupported(p) == Lower(p) \in RegisteredPlatforms
TargetSize(p) == SOCIAL_MEDIA_SIZES(Lower(p))

\* "Ensure minimum resolution"
EnsureMinResolution(img, low) ==
    IF img.h < MIN_RESOLUTION_HEIGHT
    THEN Resize(img, IntMulAspect(MIN_RESOLUTION_HEIGHT, img.w, img.h, low),
                MIN_RESOLUTION_HEIGHT)
    ELSE img

\* Variant of ResizeToCover: the two resizes change places.
ResizeToCoverSwapped(img, a, p, low) ==
    LET t == TargetSize(p)
    IN  IF Wider(a.w, a.h, t[1], t[2])
        THEN Resize(img, t[1], IntDivAspect(t[1], a.w, a.h, low))
        ELSE Resize(img, IntMulAspect(t[2], a.w, a.h, low), t[2])

\* The resize of the branch "aspect ratios differ".
ResizeToCover(img, a, p, low) ==
    LET t == TargetSize(p)
    IN  IF Wider(a.w, a.h, t[1], t[2])
        THEN Resize(img, IntMulAspect(t[2], a.w, a.h, low), t[2])
        ELSE Resize(img, t[1], IntDivAspect(t[1], a.w, a.h, low))

CropLeft(img, p) == (img.w - TargetSize(p)[1]) \div 2
CropTop(img, p) == (img.h - TargetSize(p)[2]) \div 2

\* Variant of CenterCrop: the right and bottom edges mirror the left and top.
CenterCropMirrored(img, p) ==
    LET left == CropLeft(img, p)
        top == CropTop(img, p)
    IN  Crop(img, left, top, img.w - left, img.h - top)

\* "Center crop to target dimensions"
CenterCrop(img, p) ==
    LET t == TargetSize(p)
        left == CropLeft(img, p)
        top == CropTop(img, p)
    IN  Crop(img, left, top, left + t[1], top + t[2])

\* "Direct resize if aspect ratios already match"
DirectResize(img, p) == Resize(img, TargetSize(p)[1], TargetSize(p)[2])

\* A frame of one call: the position in the function, the local image and
\* the image whose aspect ratio img_aspect was taken.
FitCall(image) == [pc |-> "call", img |-> image, a |-> image]
FitRaise(f) == [f EXCEPT !.pc = "raised"]

\* Platform check, conversion to RGB, aspect ratios, minimum resolution.
FitMinResolution(f, p, low) ==
    IF ~PlatformSupported(p) THEN FitRaise(f)
    ELSE LET a == ConvertMode(f.img)
             m == EnsureMinResolution(a, low)
         IN  IF CanResize(m.w, m.h)
             THEN [pc |-> "minres", img |-> m, a |-> a]
             ELSE FitRaise(f)

\* "Adjust image to match target aspect ratio": the resize of either branch.
FitResize(f, p, tie, low) ==
    LET t == TargetSize(p)
    IN  IF AspectDiffers(f.a.w, f.a.h, t[1], t[2], tie)
        THEN LET r == ResizeToCover(f.img, f.a, p, low)
             IN  IF CanResize(r.w, r.h)
                 THEN [f EXCEPT !.pc = "resized", !.img = r]
                 ELSE FitRaise(f)
        ELSE [f EXCEPT !.pc = "returned", !.img = DirectResize(f.img, p)]

\* The center crop that follows the resize of the first branch.
FitCrop(f, p) == [f EXCEPT !.pc = "returned", !.img = CenterCrop(f.img, p)]

\* The whole function; fl = <<low1, tie, low2>> are the rounding outcomes.
\* The result is a frame whose pc is "returned" or "raised".
optimize_for_platform(image, p, fl) ==
    LET f1 == FitMinResolution(FitCall(image), p, fl[1])
        f2 == IF f1.pc = "minres" THEN FitResize(f1, p, fl[2], fl[3]) ELSE f1
    IN  IF f2.pc = "resized" THEN FitCrop(f2, p) ELSE f2

Flags == BOOLEAN \X BOOLEAN \X BOOLEAN

(***************************************************************************)
(* Texts and JSON values.  A Python value that the code treats as a text   *)
(* is a record [t, s]: t = "str" with s the sequence of chunks of the      *)
(* string, or a value of another type: "null" stands for the falsy ones    *)
(* (None, 0, false, []), "num" for a non-zero number, "list" for a         *)
(* non-empty list.  "missing" marks a key absent from the JSON object.     *)
(***************************************************************************)
NL == "\n"
\* A lone surrogate code point (JSON "\ud800"): str.encode('utf-8') raises.
SUR == "\\ud800"
\* A character outside the Basic Multilingual Plane (ord(c) >= 65536).
ASTRAL == "U+1F600"

Str(s) == [t |-> "str", s |-> s]
NonStr(t) == [t |-> t, s |-> <<>>]
Missing == NonStr("missing")

HashPlatform(p) == Str(<<"#", p>>)

\* Bounding boxes: coordinates are multiples of 1/Scale.
Box(c) == [t |-> "list4", c |-> c]
NonBox(t) == [t |-> t, c |-> <<0, 0, 0, 0>>]
FullImage == <<0, 0, Scale, Scale>>

Min(a, b) == IF a < b THEN a ELSE b
Max(a, b) == IF a > b THEN a ELSE b

(***************************************************************************)
(* process_with_gemini                                                     *)
(***************************************************************************)
Triple(c, b, h) == [caption |-> c, box |-> b, hashtags |-> h]

\* The return of the branch "Gemini model not loaded".
LocatorNotLoaded ==
    Triple(Str(<<"No caption could be generated. Gemini model not loaded.">>),
           FullImage, Str(<<"#ai #image">>))

\* Variant of LocatorOuterFallback: the caption of the inner handler.
LocatorOuterFallbackSameCaption(p) ==
    Triple(Str(<<"Image analysis failed due to processing error.">>),
           FullImage, HashPlatform(p))

\* The return of the outer handler ("Error processing with Gemini").
LocatorOuterFallback(p) ==
    Triple(Str(<<"Image analysis failed.">>), FullImage, HashPlatform(p))

\* The return of the inner handler ("Error parsing Gemini response").
LocatorParseFallback(p) ==
    Triple(Str(<<"Image analysis failed due to processing error.">>),
           FullImage, HashPlatform(p))

\* What json.loads is given: a reply wrapped in a fence with another label
\* than "json" keeps the label in front of the payload and does not parse.
JsonPayload(reply) == IF reply.wrap = "tagged" THEN "nonjson" ELSE reply.kind

\* result.get(key, default)
GetOr(v, default) == IF v.t = "missing" THEN default ELSE v

\* max(0.0, min(1.0, x)) on each coordinate.
ClampBox(c) == [i \in 1..4 |-> Max(0, Min(Scale, c[i]))]

\* Variant of Degenerate: an empty box (x2 = x1 or y2 = y1) passes.
DegenerateStrict(c) == c[3] < c[1] \/ c[4] < c[2]

\* "Ensure second coordinate is greater than first"
Degenerate(c) == c[3] <= c[1] \/ c[4] <= c[2]

NormalizeBox(c) == IF Degenerate(ClampBox(c)) THEN FullImage ELSE ClampBox(c)

\* The inner try block, after json.loads succeeded on an object.
ParseObject(reply, p) ==
    LET caption == GetOr(reply.caption, Str(<<"No caption generated.">>))
        bb == GetOr(reply.box, Box(FullImage))
        hashtags == GetOr(reply.hashtags, HashPlatform(p))
        bb4 == IF bb.t \in {"list4", "badelem"} THEN bb ELSE Box(FullImage)
    IN  IF bb4.t = "badelem"
        THEN LocatorParseFallback(p)
        ELSE Triple(caption, NormalizeBox(bb4.c), hashtags)

\* readable: open(image_path, "rb") succeeds.
process_with_gemini(loaded, readable, reply, p) ==
    IF ~loaded THEN LocatorNotLoaded
    ELSE IF ~readable \/ reply.kind \in {"raise", "blocked"}
    THEN LocatorOuterFallback(p)
    ELSE IF JsonPayload(reply) # "object"
    THEN LocatorParseFallback(p)
    ELSE ParseObject(reply, p)

(***************************************************************************)
(* What the external model can do.                                         *)
(***************************************************************************)
Reply(k, wr, c, b, h) ==
    [kind |-> k, wrap |-> wr, caption |-> c, box |-> b, hashtags |-> h]

\* A well-formed reply, used where a reply has no role.
PlainCaption == Str(<<"a">>)
PlainHashtags == Str(<<"#a">>)
PlainBox == Box(<<2, 2, Scale - 2, Scale - 2>>)
NoReply(k) == Reply(k, "none", Missing, NonBox("missing"), Missing)

Coords == {0 - 5, 0, 3, Scale - 3, Scale, Scale + 5}
GridBoxes == {Box(<<a, b, c, d>>) : a \in Coords, b \in Coords, c \in Coords, d \in Coords}
OddBoxes == {NonBox("missing"), NonBox("notlist"), NonBox("wronglen"), NonBox("badelem")}

Captions ==
    {Str(<<>>), Str(<<"a">>), Str(<<"a", NL, "b">>), Str(<<"a", NL, NL, "b">>),
     Str(<<SUR>>), Str(<<ASTRAL>>)}
Hashtags == {Str(<<>>), Str(<<"#a">>), Str(<<"#a", NL, "#b">>), Str(<<SUR>>)}
OddTexts == {Missing, NonStr("null"), NonStr("num"), NonStr("list")}
Wraps == {"none", "json", "bare", "tagged"}

FailedReplies == {NoReply(k) : k \in {"raise", "blocked", "nonjson", "nonobject"}}

(***************************************************************************)
(* sanitize_text: the result is [ok, v]; ok = FALSE when the call raises   *)
(* (a value without an encode method).                                     *)
(***************************************************************************)
Falsy(v) == v.t = "null" \/ (v.t = "str" /\ v.s = <<>>)
Encodable(s) == \A i \in 1..Len(s) : s[i] # SUR
ReplaceAstral(s) == [i \in 1..Len(s) |-> IF s[i] = ASTRAL THEN "?" ELSE s[i]]

sanitize_text(text) ==
    IF Falsy(text) THEN [ok |-> TRUE, v |-> Str(<<>>)]
    ELSE IF text.t # "str" THEN [ok |-> FALSE, v |-> text]
    ELSE IF Encodable(text.s) THEN [ok |-> TRUE, v |-> text]
    ELSE [ok |-> TRUE, v |-> Str(ReplaceAstral(text.s))]

(***************************************************************************)
(* smart_crop_gemini: the result is [img, same]; same = TRUE when the      *)
(* function returns the very object it was given.                          *)
(***************************************************************************)
\* int(c * n) for the normalized coordinate c / Scale; 0.0 and 1.0 are
\* exact, any other coordinate may make an integer product come out low.
IntCoord(c, n, low) ==
    LET q == (c * n) \div Scale
    IN  IF (c * n) % Scale = 0 /\ c # 0 /\ c # Scale /\ low THEN q - 1 ELSE q

\* int(d * 0.2)
Pad(d) == IF d >= 0 THEN (d * 2) \div 10 ELSE 0 - ((0 - d) * 2) \div 10

\* np.array(image) then Image.fromarray: a palette image comes back as "L".
ArrayMode(m) == IF m = "P" THEN "L" ELSE m

smart_crop_gemini(image, bb, low) ==
    LET width == image.w
        height == image.h
        x1 == IntCoord(bb[1], width, low[1])
        y1 == IntCoord(bb[2], height, low[2])
        x2 == IntCoord(bb[3], width, low[3])
        y2 == IntCoord(bb[4], height, low[4])
        pad_x == Pad(x2 - x1)
        pad_y == Pad(y2 - y1)
        cx1 == Max(0, x1 - pad_x)
        cy1 == Max(0, y1 - pad_y)
        cx2 == Min(width, x2 + pad_x)
        cy2 == Min(height, y2 + pad_y)
    IN  IF cx1 >= cx2 \/ cy1 >= cy2 \/ cx2 <= 0 \/ cy2 <= 0
        THEN [img |-> image, same |-> TRUE]
        ELSE [img |-> Img(cx2 - cx1, cy2 - cy1, ArrayMode(image.mode)),
              same |-> FALSE]

CropFlags == BOOLEAN \X BOOLEAN \X BOOLEAN \X BOOLEAN

(***************************************************************************)
(* Files.  A path is a record, a file system a function from the paths     *)
(* that exist to their contents; every content names the run that wrote it.*)
(***************************************************************************)
TEMP_FOLDER == "temp/"
OUTPUT_FOLDER == "media/optimized/"
CAPTION_FOLDER == "output_captions/"

\* format.lower() / format.upper() on the format strings of the model.
Formats == {"JPEG", "PNG"}
Ext(fmt) == IF fmt = "JPEG" THEN "jpeg" ELSE "png"

Path(dir, stem, id, ts, ext) ==
    [dir |-> dir, stem |-> stem, id |-> id, ts |-> ts, ext |-> ext]

\* f"original_{process_id}.{format.lower()}" under TEMP_FOLDER
original_path(id, fmt) == Path(TEMP_FOLDER, "original", id, 0, Ext(fmt))
\* Variant of output_path: the name carries no request identifier.
output_path_without_id(p, id, ts, fmt) == Path(OUTPUT_FOLDER, p, 0, ts, Ext(fmt))

\* f"{platform}_{process_id}_{timestamp_val}.{format.lower()}"
output_path(p, id, ts, fmt) == Path(OUTPUT_FOLDER, p, id, ts, Ext(fmt))
\* f"{platform}_{process_id}_{timestamp_val}.txt"
caption_path(p, id, ts) == Path(CAPTION_FOLDER, p, id, ts, "txt")

NoImg == Img(0, 0, "none")
ImageFile(r, img) == [writer |-> r, kind |-> "image", img |-> img, text |-> <<>>]
TextFile(r, text) == [writer |-> r, kind |-> "text", img |-> NoImg, text |-> text]
EmptyFile(r) == [writer |-> r, kind |-> "empty", img |-> NoImg, text |-> <<>>]

Exists(fsys, path) == path \in DOMAIN fsys
WriteFile(fsys, path, content) == (path :> content) @@ fsys
RemoveFile(fsys, path) == [q \in (DOMAIN fsys) \ {path} |-> fsys[q]]

\* Image.save picks the encoder from the extension; the JPEG encoder
\* writes the modes L, RGB, CMYK only.
CanSave(img, fmt) == fmt # "JPEG" \/ img.mode \in {"RGB", "L"}

\* Image.save(path): on a failure of the encoder or of the device the file
\* it created is removed again; a file that existed is left truncated.
\* dev tells that the device alone made the call fail.
SaveImage(fsys, path, r, img, fmt, fault) ==
    IF CanSave(img, fmt) /\ ~fault
    THEN [ok |-> TRUE, dev |-> FALSE,
          fs |-> WriteFile(fsys, path, ImageFile(r, img))]
    ELSE [ok |-> FALSE, dev |-> CanSave(img, fmt),
          fs |-> IF Exists(fsys, path)
                 THEN WriteFile(fsys, path, EmptyFile(r)) ELSE fsys]

\* f"{caption}\n\n{hashtags}"
SidecarText(caption, hashtags) == caption.s \o <<NL, NL>> \o hashtags.s

\* open(caption_path, "w", encoding="utf-8") then f.write(...): the file is
\* created before the text is encoded.
WriteSidecar(fsys, path, r, text, fault) ==
    IF Encodable(text) /\ ~fault
    THEN [ok |-> TRUE, dev |-> FALSE,
          fs |-> WriteFile(fsys, path, TextFile(r, text))]
    ELSE [ok |-> FALSE, dev |-> Encodable(text),
          fs |-> WriteFile(fsys, path, EmptyFile(r))]

(***************************************************************************)
(* The records process_image_complete returns.                             *)
(***************************************************************************)
NoPath == Path("", "", 0, 0, "")

SuccessRecord(p, path, caption, hashtags, smart_cropped) ==
    [kind |-> "success", error |-> <<>>,
     platform |-> DisplayName(p), size |-> SOCIAL_MEDIA_SIZES(p),
     optimized_image |-> path, caption_text |-> caption,
     hashtags |-> hashtags, enhanced |-> FALSE,
     smart_cropped |-> smart_cropped]

\* Variant of SizeOrZero: the default for every platform.
SizeZero(p) == <<0, 0>>

\* SOCIAL_MEDIA_SIZES.get(platform, (0, 0))
SizeOrZero(p) == IF p \in RegisteredPlatforms THEN SOCIAL_MEDIA_SIZES(p) ELSE <<0, 0>>

ErrorRecord(p, reason) ==
    [kind |-> "error", error |-> <<"Processing failed: ", reason>>,
     platform |-> DisplayName(p), size |-> SizeOrZero(p),
     optimized_image |-> NoPath,
     caption_text |-> Str(<<"Image processing failed.">>),
     hashtags |-> HashPlatform(p), enhanced |-> FALSE,
     smart_cropped |-> FALSE]

\* The triple of STEP 1 when the model is not loaded.  (The handler around
\* the call of process_with_gemini is never entered: that function catches
\* every exception itself.)
PipelineNotLoaded(p) ==
    Triple(Str(<<"Image analysis not available. Gemini model not loaded.">>),
           FullImage, HashPlatform(p))

\* STEP 1 of process_image_complete.
PipelineLocate(loaded, readable, reply, p) ==
    IF loaded THEN process_with_gemini(loaded, readable, reply, p)
    ELSE PipelineNotLoaded(p)

\* uuid.uuid4(): an identifier no earlier request was given.
Ids == 1..NumRuns
FreshIds(used) == Ids \ used

\* str(e) of the exception that ends a run, by the step that raised it.
Reason(step) ==
    CASE step = "decode"   -> "cannot identify image file"
      [] step = "temp"     -> "cannot write temporary copy"
      [] step = "fit"      -> "Unsupported platform"
      [] step = "sanitize" -> "object has no attribute 'encode'"
      [] step = "encode"   -> "cannot write image"
      [] step = "sidecar"  -> "cannot write caption file"
      [] step = "record"   -> "KeyError"

(***************************************************************************)
(* State.                                                                  *)
(***************************************************************************)
VARIABLES
    req,      \* req[r]: the arguments of run r and what the model will reply
    run,      \* run[r]: position and local variables of run r
    fs,       \* the file system
    usedIds,  \* request identifiers handed out so far
    fitArg,   \* optimize_for_platform alone: its arguments
    fit,      \* optimize_for_platform alone: its frame
    locArg,   \* process_with_gemini alone: its arguments
    locRet    \* process_with_gemini alone: its position and return value

vars == <<req, run, fs, usedIds, fitArg, fit, locArg, locRet>>
pipeVars == <<req, run, fs, usedIds>>
fitVars == <<fitArg, fit>>
locVars == <<locArg, locRet>>

Runs == 1..NumRuns

Undecodable == Img(0, 0, "undecodable")
NoTriple == Triple(Str(<<>>), FullImage, Str(<<>>))
NoResult ==
    [kind |-> "none", error |-> <<>>, platform |-> "", size |-> <<0, 0>>,
     optimized_image |-> NoPath, caption_text |-> Str(<<>>),
     hashtags |-> Str(<<>>), enhanced |-> FALSE, smart_cropped |-> FALSE]

Request(p, image, fmt, crop, loaded, reply) ==
    [platform |-> p, image |-> image, format |-> fmt,
     smart_crop_enabled |-> crop, loaded |-> loaded, reply |-> reply]

NewRun(pc) ==
    [pc |-> pc, id |-> 0, ts |-> 0, image |-> NoImg, handed |-> NoImg,
     loc |-> NoTriple,
     smart_cropped |-> FALSE, failed |-> "none", faulted |-> FALSE,
     cleanup |-> "none", result |-> NoResult]

\* The except handler of process_image_complete; dev tells that a fault of
\* the device (not the arguments) raised the exception.  The handler does
\* not touch the temporary copy.
Fail(r, step, dev) ==
    [run EXCEPT ![r].pc = "returned", ![r].failed = step, ![r].faulted = dev,
                ![r].result = ErrorRecord(req[r].platform, Reason(step))]

(***************************************************************************)
(* process_image_complete, one action per access to the file system.       *)
(***************************************************************************)
\* Request identifier, timestamp, Image.open, temporary copy.
Begin(r) ==
    /\ run[r].pc = "idle"
    /\ \E id \in FreshIds(usedIds), ts \in 1..MaxTime, fault \in BOOLEAN :
         LET q == req[r]
             sv == SaveImage(fs, original_path(id, q.format), r, q.image,
                             q.format, fault)
             started == [run EXCEPT ![r].id = id, ![r].ts = ts]
         IN  /\ usedIds' = usedIds \cup {id}
             /\ IF q.image = Undecodable
                THEN /\ run' = [Fail(r, "decode", FALSE) EXCEPT ![r].id = id, ![r].ts = ts]
                     /\ fs' = fs
                ELSE IF ~sv.ok
                THEN /\ run' = [Fail(r, "temp", sv.dev) EXCEPT ![r].id = id, ![r].ts = ts,
                                                     ![r].image = q.image]
                     /\ fs' = sv.fs
                ELSE /\ run' = [started EXCEPT ![r].pc = "temp_saved",
                                              ![r].image = q.image]
                     /\ fs' = sv.fs
    /\ UNCHANGED <<req, fitVars, locVars>>

\* STEP 1: caption, bounding box and hashtags.
Locate(r) ==
    /\ run[r].pc = "temp_saved"
    /\ LET q == req[r]
           readable == Exists(fs, original_path(run[r].id, q.format))
       IN  run' = [run EXCEPT ![r].pc = "located",
                     ![r].loc = PipelineLocate(q.loaded, readable, q.reply,
                                               q.platform)]
    /\ UNCHANGED <<req, fs, usedIds, fitVars, locVars>>

\* STEP 2: the image after the smart crop, over the rounding outcomes.
CropOutcomes(enabled, image, bb) ==
    IF enabled
    THEN {smart_crop_gemini(image, bb, cl) : cl \in CropFlags}
    ELSE {[img |-> image, same |-> TRUE]}

\* STEP 3: the frame optimize_for_platform ends in, over the rounding outcomes.
FitOutcomes(image, p) == {optimize_for_platform(image, p, fl) : fl \in Flags}

\* STEP 2 to STEP 5: smart crop, optimize_for_platform, sanitize_text and
\* the save of the processed image.
PersistImage(r) ==
    /\ run[r].pc = "located"
    /\ \E cropped \in CropOutcomes(req[r].smart_crop_enabled, run[r].image,
                                   run[r].loc.box) :
       \E fitted \in FitOutcomes(cropped.img, req[r].platform) :
       \E caption \in {sanitize_text(run[r].loc.caption)},
          hashtags \in {sanitize_text(run[r].loc.hashtags)},
          fault \in BOOLEAN :
         LET q == req[r]
             me == run[r]
         IN  IF fitted.pc = "raised"
             THEN run' = Fail(r, "fit", FALSE) /\ fs' = fs
             ELSE IF ~caption.ok \/ ~hashtags.ok
             THEN run' = Fail(r, "sanitize", FALSE) /\ fs' = fs
             ELSE \E sv \in {SaveImage(fs,
                               output_path(q.platform, me.id, me.ts, q.format),
                               r, fitted.img, q.format, fault)} :
                    /\ fs' = sv.fs
                    /\ run' = IF ~sv.ok THEN Fail(r, "encode", sv.dev)
                              ELSE [run EXCEPT ![r].pc = "image_saved",
                                      ![r].image = fitted.img,
                                      ![r].handed = cropped.img,
                                      ![r].smart_cropped = ~cropped.same,
                                      ![r].loc = Triple(caption.v, me.loc.box,
                                                        hashtags.v)]
    /\ UNCHANGED <<req, usedIds, fitVars, locVars>>

\* "Save caption to file"
WriteCaption(r) ==
    /\ run[r].pc = "image_saved"
    /\ \E fault \in BOOLEAN :
         LET q == req[r]
             me == run[r]
             wr == WriteSidecar(fs, caption_path(q.platform, me.id, me.ts), r,
                                SidecarText(me.loc.caption, me.loc.hashtags),
                                fault)
         IN  /\ fs' = wr.fs
             /\ run' = IF wr.ok THEN [run EXCEPT ![r].pc = "sidecar_written"]
                       ELSE Fail(r, "sidecar", wr.dev)
    /\ UNCHANGED <<req, usedIds, fitVars, locVars>>

\* "Clean up temporary files" and the return of the success record.
Finish(r) ==
    /\ run[r].pc = "sidecar_written"
    /\ \E fault \in BOOLEAN :
         LET q == req[r]
             me == run[r]
             tmp == original_path(me.id, q.format)
             cleanup == IF ~Exists(fs, tmp) THEN "absent"
                        ELSE IF fault THEN "failed" ELSE "removed"
             ended == IF q.platform \in RegisteredPlatforms
                      THEN [run EXCEPT ![r].pc = "returned",
                              ![r].result =
                                SuccessRecord(q.platform,
                                    output_path(q.platform, me.id, me.ts, q.format),
                                    me.loc.caption, me.loc.hashtags,
                                    me.smart_cropped)]
                      ELSE Fail(r, "record", FALSE)
         IN  /\ fs' = IF cleanup = "removed" THEN RemoveFile(fs, tmp) ELSE fs
             /\ run' = [ended EXCEPT ![r].cleanup = cleanup]
    /\ UNCHANGED <<req, usedIds, fitVars, locVars>>

Next ==
    \E r \in Runs :
        Begin(r) \/ Locate(r) \/ PersistImage(r) \/ WriteCaption(r) \/ Finish(r)

(***************************************************************************)
(* Requests of the pipeline.                                               *)
(***************************************************************************)
SmallBoxes ==
    {PlainBox, Box(FullImage), Box(<<0 - 5, 2, Scale - 2, Scale + 5>>),
     Box(<<Scale - 2, 2, 2, Scale - 2>>), Box(<<3, 3, 3, 3>>)}

PipeReplies ==
    FailedReplies
    \cup {Reply("object", wr, PlainCaption, PlainBox, PlainHashtags) : wr \in Wraps}
    \cup {Reply("object", "none", c, PlainBox, PlainHashtags) : c \in Captions \cup OddTexts}
    \cup {Reply("object", "none", PlainCaption, PlainBox, h) : h \in Hashtags \cup OddTexts}
    \cup {Reply("object", "none", PlainCaption, b, PlainHashtags) : b \in SmallBoxes \cup OddBoxes}

PipeSizes == {<<100, 100>>, <<1920, 1080>>, <<1080, MaxDim>>}
PipeImages ==
    {Img(d[1], d[2], m) : d \in PipeSizes, m \in Modes} \cup {Undecodable}

PipeRequests ==
    {Request(p, im, f, c, TRUE, rp) :
        p \in Platforms, im \in PipeImages, f \in Formats, c \in BOOLEAN,
        rp \in PipeReplies}
    \cup {Request(p, im, f, c, FALSE, NoReply("raise")) :
        p \in Platforms, im \in PipeImages, f \in Formats, c \in BOOLEAN}

\* Requests of the runs that proceed concurrently: all the same.
ConcRequests ==
    {Request("instagram", Img(100, 100, "RGB"), f, FALSE, TRUE,
             Reply("object", "none", PlainCaption, PlainBox, PlainHashtags)) :
        f \in Formats}

IdleRequest ==
    Request("", NoImg, "JPEG", FALSE, FALSE, NoReply("raise"))

EmptyFs == [q \in {} |-> EmptyFile(0)]

FitOff ==
    /\ fitArg = [image |-> NoImg, platform |-> ""]
    /\ fit = [pc |-> "off", img |-> NoImg, a |-> NoImg]
LocOff ==
    /\ locArg = [loaded |-> FALSE, readable |-> FALSE, platform |-> "",
                 reply |-> NoReply("raise")]
    /\ locRet = [pc |-> "off", ret |-> NoTriple]
PipeOff ==
    /\ req = [r \in Runs |-> IdleRequest]
    /\ run = [r \in Runs |-> NewRun("off")]
    /\ fs = EmptyFs
    /\ usedIds = {}

\* One request at a time.
Init ==
    /\ \E q \in PipeRequests :
         req = [r \in Runs |-> IF r = 1 THEN q ELSE IdleRequest]
    /\ run = [r \in Runs |-> IF r = 1 THEN NewRun("idle") ELSE NewRun("off")]
    /\ fs = EmptyFs
    /\ usedIds = {}
    /\ FitOff
    /\ LocOff

Spec == Init /\ [][Next]_vars

\* Concurrent runs with identical arguments.
ConcInit ==
    /\ \E q \in ConcRequests : req = [r \in Runs |-> q]
    /\ run = [r \in Runs |-> NewRun("idle")]
    /\ fs = EmptyFs
    /\ usedIds = {}
    /\ FitOff
    /\ LocOff

SpecConc == ConcInit /\ [][Next]_vars

(***************************************************************************)
(* optimize_for_platform on its own.                                       *)
(***************************************************************************)
FitImages == {Img(w, h, m) : w \in Dims, h \in Dims, m \in Modes}

FitInit ==
    /\ \E im \in FitImages, p \in Platforms :
         /\ fitArg = [image |-> im, platform |-> p]
         /\ fit = FitCall(im)
    /\ PipeOff
    /\ LocOff

StepMinResolution ==
    /\ fit.pc = "call"
    /\ \E low \in BOOLEAN : fit' = FitMinResolution(fit, fitArg.platform, low)
    /\ UNCHANGED <<fitArg, pipeVars, locVars>>

StepResize ==
    /\ fit.pc = "minres"
    /\ \E tie \in BOOLEAN, low \in BOOLEAN :
         fit' = FitResize(fit, fitArg.platform, tie, low)
    /\ UNCHANGED <<fitArg, pipeVars, locVars>>

StepCrop ==
    /\ fit.pc = "resized"
    /\ fit' = FitCrop(fit, fitArg.platform)
    /\ UNCHANGED <<fitArg, pipeVars, locVars>>

FitNext == StepMinResolution \/ StepResize \/ StepCrop

SpecFit == FitInit /\ [][FitNext]_vars

(***************************************************************************)
(* process_with_gemini on its own.                                         *)
(***************************************************************************)
LocReplies ==
    FailedReplies
    \cup {Reply("object", "none", PlainCaption, b, PlainHashtags) : b \in GridBoxes}
    \cup {Reply("object", wr, c, b, h) :
            wr \in Wraps, c \in {PlainCaption, Missing, NonStr("list")},
            b \in {PlainBox} \cup OddBoxes,
            h \in {PlainHashtags, Missing, NonStr("null")}}

LocInit ==
    /\ \E l \in BOOLEAN, rd \in BOOLEAN, p \in Platforms, rp \in LocReplies :
         locArg = [loaded |-> l, readable |-> rd, platform |-> p, reply |-> rp]
    /\ locRet = [pc |-> "call", ret |-> NoTriple]
    /\ PipeOff
    /\ FitOff

CallLocator ==
    /\ locRet.pc = "call"
    /\ locRet' = [pc |-> "returned",
                  ret |-> process_with_gemini(locArg.loaded, locArg.readable,
                                              locArg.reply, locArg.platform)]
    /\ UNCHANGED <<locArg, pipeVars, fitVars>>

LocNext == CallLocator

SpecLocate == LocInit /\ [][LocNext]_vars

(***************************************************************************)
(* Properties of optimize_for_platform (checked under SpecFit).            *)
(***************************************************************************)
FitRegistered == fitArg.platform \in RegisteredPlatforms
FitTarget == SOCIAL_MEDIA_SIZES(fitArg.platform)
FitSourceWider ==
    Wider(fitArg.image.w, fitArg.image.h, FitTarget[1], FitTarget[2])

\* C1: for every registered platform and every source image of at least
\* 1x1 pixels, optimize_for_platform does not raise and the image it
\* returns has exactly the registered width and height of the platform.
C1_ExactTargetSize ==
    FitRegistered =>
        /\ fit.pc # "raised"
        /\ fit.pc = "returned" =>
             /\ fit.img.w = FitTarget[1]
             /\ fit.img.h = FitTarget[2]

\* C1 witness: a 99x100 source (upscaled to height 720, relatively taller
\* than 1200x627) has been returned for linkedin.
C1_Witness ==
    /\ fit.pc = "returned"
    /\ fitArg.platform = "linkedin"
    /\ fitArg.image.w = 99 /\ fitArg.image.h = 100
    /\ fit.img.w = 1200 /\ fit.img.h = 627

\* C10: after the resize of the branch "aspect ratios differ" the image
\* matches the target in one dimension and is at least the target in the
\* other (wider source: height equal, width at least; taller source: width
\* equal, height at least), the crop offsets are non-negative and the crop
\* window lies inside the resized image.
C10_CropWindowInside ==
    (FitRegistered /\ fit.pc = "resized") =>
        LET left == (fit.img.w - FitTarget[1]) \div 2
            top == (fit.img.h - FitTarget[2]) \div 2
        IN  /\ IF FitSourceWider
               THEN fit.img.h = FitTarget[2] /\ fit.img.w >= FitTarget[1]
               ELSE fit.img.w = FitTarget[1] /\ fit.img.h >= FitTarget[2]
            /\ left >= 0 /\ top >= 0
            /\ left + FitTarget[1] <= fit.img.w
            /\ top + FitTarget[2] <= fit.img.h

\* C10 witness: a relatively taller source below 720 pixels of height has
\* been resized to the target width and a greater height.
C10_Witness ==
    /\ fit.pc = "resized"
    /\ FitRegistered
    /\ ~FitSourceWider
    /\ fitArg.image.h < MIN_RESOLUTION_HEIGHT
    /\ fit.img.w = FitTarget[1]
    /\ fit.img.h > FitTarget[2]

(***************************************************************************)
(* Properties of process_with_gemini (checked under SpecLocate).           *)
(***************************************************************************)
LocReturned == locRet.pc = "returned"
\* The model was called and its reply reached json.loads.
LocParsed == LocReturned /\ locArg.loaded /\ locArg.readable
             /\ locArg.reply.kind \in {"nonjson", "nonobject", "object"}
LocNotJson == locArg.reply.kind = "nonjson" \/ locArg.reply.wrap = "tagged"
LocObject == LocParsed /\ locArg.reply.kind = "object"
             /\ locArg.reply.wrap # "tagged"
LocKeyMissing ==
    \/ locArg.reply.caption.t = "missing"
    \/ locArg.reply.box.t = "missing"
    \/ locArg.reply.hashtags.t = "missing"
ParseFailureTriple ==
    [caption |-> Str(<<"Image analysis failed due to processing error.">>),
     box |-> <<0, 0, Scale, Scale>>,
     hashtags |-> Str(<<"#", locArg.platform>>)]

C6_NotLoadedTriple ==
    (LocReturned /\ ~locArg.loaded) =>
        locRet.ret =
            [caption |-> Str(<<"Image analysis not available. Gemini model not loaded.">>),
             box |-> <<0, 0, Scale, Scale>>,
             hashtags |-> Str(<<"#", locArg.platform>>)]

\* Coordinates of the box the model returned, when it is a list of four numbers.
LocRawBox == locArg.reply.box.c
LocNumericBox == LocObject /\ locArg.reply.box.t = "list4"
InUnit(x) == 0 <= x /\ x <= Scale
ClampUnit(x) == IF x < 0 THEN 0 ELSE IF x > Scale THEN Scale ELSE x

\* C7 as claimed: a box with a coordinate outside [0,1], or with x2 <= x1 or
\* y2 <= y1, always comes back as the full-image region (0,0,1,1).
C7_OutOfRangeIsFullImage ==
    (LocNumericBox
       /\ \/ \E i \in 1..4 : ~InUnit(LocRawBox[i])
          \/ LocRawBox[3] <= LocRawBox[1]
          \/ LocRawBox[4] <= LocRawBox[2])
    => locRet.ret.box = <<0, 0, Scale, Scale>>

\* C7 as amended: every coordinate is first clamped into [0,1]; the region
\* returned is (0,0,1,1) when the clamped box has x2 <= x1 or y2 <= y1 (in
\* particular whenever the box returned by the model has), and the clamped
\* box otherwise.
C7_ClampThenFullImage ==
    LocNumericBox =>
        LET cl == [i \in 1..4 |-> ClampUnit(LocRawBox[i])]
        IN  /\ (LocRawBox[3] <= LocRawBox[1] \/ LocRawBox[4] <= LocRawBox[2])
                 => locRet.ret.box = <<0, 0, Scale, Scale>>
            /\ locRet.ret.box =
                 IF cl[3] <= cl[1] \/ cl[4] <= cl[2]
                 THEN <<0, 0, Scale, Scale>> ELSE cl

\* C7 witness: a box with two coordinates out of range came back clamped,
\* not as the full image.
C7_Witness ==
    /\ LocNumericBox
    /\ LocRawBox = <<0 - 5, 3, Scale - 3, Scale + 5>>
    /\ locRet.ret.box = <<0, 3, Scale - 3, Scale>>

(***************************************************************************)
(* Properties of process_image_complete (checked under Spec, C8 under      *)
(* SpecConc).                                                              *)
(***************************************************************************)
Returned(r) == run[r].pc = "returned"
Registered(r) == req[r].platform \in RegisteredPlatforms
Decodable(r) == req[r].image.mode \in Modes

\* C2: with a registered platform, a decodable image, the default format
\* JPEG and smart_crop_enabled = false, process_image_complete returns a
\* success record whose size is the registry entry, and the optimized image
\* it stored has exactly those dimensions, model loaded or not.  (Runs in
\* which the storage device failed are left aside.)
C2_SuccessWithRegisteredSize ==
    \A r \in Runs :
        (Returned(r) /\ Registered(r) /\ Decodable(r)
           /\ req[r].format = "JPEG" /\ ~req[r].smart_crop_enabled
           /\ ~run[r].faulted)
        => /\ run[r].result.kind = "success"
           /\ run[r].result.size = SOCIAL_MEDIA_SIZES(req[r].platform)
           /\ run[r].result.optimized_image \in DOMAIN fs
           /\ fs[run[r].result.optimized_image].kind = "image"
           /\ fs[run[r].result.optimized_image].img.w = run[r].result.size[1]
           /\ fs[run[r].result.optimized_image].img.h = run[r].result.size[2]

\* C3: with a registered platform every run ends by returning a record; a
\* failure at any step gives an error record whose error is "Processing
\* failed: <reason>", whose platform is the display name and whose size is
\* the registry entry of the requested platform, with the placeholder
\* caption and hashtags; an undecodable image gives such a record.
C3_ErrorRecord ==
    \A r \in Runs :
        (Returned(r) /\ Registered(r)) =>
            /\ run[r].result.kind \in {"success", "error"}
            /\ run[r].result.kind = "error" <=> run[r].failed # "none"
            /\ req[r].image = Undecodable => run[r].result.kind = "error"
            /\ run[r].result.kind = "error" =>
                 /\ Len(run[r].result.error) = 2
                 /\ run[r].result.error[1] = "Processing failed: "
                 /\ run[r].result.platform = DisplayName(req[r].platform)
                 /\ req[r].platform = "instagram_story" =>
                      run[r].result.platform = "Instagram Story"
                 /\ run[r].result.size = SOCIAL_MEDIA_SIZES(req[r].platform)
                 /\ run[r].result.caption_text = Str(<<"Image processing failed.">>)
                 /\ run[r].result.hashtags = Str(<<"#", req[r].platform>>)
                 /\ ~run[r].result.smart_cropped

\* C3 witness: an undecodable image for pinterest has given an error record
\* with the size 1000x1500.
C3_Witness ==
    \E r \in Runs :
        /\ Returned(r)
        /\ req[r].platform = "pinterest"
        /\ req[r].image = Undecodable
        /\ run[r].failed = "decode"
        /\ run[r].result.kind = "error"
        /\ run[r].result.size = <<1000, 1500>>

\* C4: with a decodable image, a registered platform and a loaded model, a
\* run whose temporary copy was written returns a success record whatever
\* the model did.  (Runs in which the storage device failed are left aside.)
C4_LocatorNeverFailsRequest ==
    \A r \in Runs :
        (Returned(r) /\ Registered(r) /\ Decodable(r) /\ req[r].loaded
           /\ run[r].failed \notin {"decode", "temp"} /\ ~run[r].faulted)
        => run[r].result.kind = "success"

\* The sidecar read back: the first line, and what follows the blank line.
FirstBreak(s) ==
    IF \E i \in 1..Len(s) : s[i] = NL
    THEN CHOOSE i \in 1..Len(s) : s[i] = NL /\ \A j \in 1..(i - 1) : s[j] # NL
    ELSE Len(s) + 1
ParseSidecar(s) ==
    <<SubSeq(s, 1, FirstBreak(s) - 1), SubSeq(s, FirstBreak(s) + 2, Len(s))>>

\* C9: for every successful run, the sidecar split into first line / blank
\* line / rest gives back the caption_text and the hashtags of the success
\* record, whatever strings the locator returned.
C9_SidecarRoundTrip ==
    \A r \in Runs :
        (Returned(r) /\ run[r].result.kind = "success") =>
            LET path == caption_path(req[r].platform, run[r].id, run[r].ts)
            IN  /\ path \in DOMAIN fs
                /\ ParseSidecar(fs[path].text) =
                     <<run[r].result.caption_text.s, run[r].result.hashtags.s>>

\* The three paths of a run that has drawn its identifier.
Started(r) == run[r].id # 0
PathsOf(r) ==
    {original_path(run[r].id, req[r].format),
     output_path(req[r].platform, run[r].id, run[r].ts, req[r].format),
     caption_path(req[r].platform, run[r].id, run[r].ts)}

\* C8: concurrent runs with identical platform, image and format use
\* pairwise distinct temp, output and sidecar paths, and no run writes,
\* overwrites or deletes a file of another run: every file is at a path of
\* the run that wrote it, the temporary copy of a run stays until that run
\* removes it, and the image and the sidecar a run has written stay as it
\* wrote them.
C8_NoSharedPaths ==
    /\ \A r1, r2 \in Runs :
         (r1 # r2 /\ Started(r1) /\ Started(r2)) => PathsOf(r1) \cap PathsOf(r2) = {}
    /\ \A q \in DOMAIN fs : q \in PathsOf(fs[q].writer)
    /\ \A r \in Runs :
         LET tmp == original_path(run[r].id, req[r].format)
             out == output_path(req[r].platform, run[r].id, run[r].ts, req[r].format)
             cap == caption_path(req[r].platform, run[r].id, run[r].ts)
         IN  /\ run[r].pc \in {"temp_saved", "located", "image_saved", "sidecar_written"}
                  => (tmp \in DOMAIN fs /\ fs[tmp] = ImageFile(r, req[r].image))
             /\ (run[r].pc \in {"image_saved", "sidecar_written"}
                   \/ (Returned(r) /\ run[r].failed \in {"none", "sidecar", "record"}))
                  => (out \in DOMAIN fs /\ fs[out] = ImageFile(r, run[r].image))
             /\ (run[r].pc = "sidecar_written"
                   \/ (Returned(r) /\ run[r].failed \in {"none", "record"}))
                  => (cap \in DOMAIN fs
                      /\ fs[cap] = TextFile(r, SidecarText(run[r].loc.caption,
                                                           run[r].loc.hashtags)))

\* C8 witness: two runs that drew the same timestamp have both returned a
\* success record, and the image of each is stored.
C8_Witness ==
    \E r1, r2 \in Runs :
        /\ r1 # r2
        /\ run[r1].ts = run[r2].ts
        /\ Returned(r1) /\ run[r1].result.kind = "success"
        /\ Returned(r2) /\ run[r2].result.kind = "success"
        /\ run[r1].result.optimized_image \in DOMAIN fs
        /\ run[r2].result.optimized_image \in DOMAIN fs
        /\ run[r1].result.optimized_image # run[r2].result.optimized_image

\* The temporary copy of a run that has drawn its identifier.
TempOf(r) == original_path(run[r].id, req[r].format)
\* The run wrote its temporary copy (it got past Image.open and the save).
TempCreated(r) == Started(r) /\ run[r].failed \notin {"decode", "temp"}

\* C11: every run that created the temporary copy attempts to remove it
\* before it returns, on the success path and on every error path; unless
\* the removal itself failed, no temporary copy of a returned run exists.
\* Runs whose failure came from the storage device alone are left aside, so
\* that the statement is about the paths the arguments select.
C11_TempRemovedAtReturn ==
    \A r \in Runs :
        (Returned(r) /\ TempCreated(r) /\ ~run[r].faulted
            /\ run[r].cleanup # "failed")
        => TempOf(r) \notin DOMAIN fs

\* The run returned a success record.
Succeeded(r) == Returned(r) /\ run[r].result.kind = "success"
\* The image handed to optimize_for_platform is smaller than the decoded one.
PixelsRemoved(r) ==
    \/ run[r].handed.w < req[r].image.w
    \/ run[r].handed.h < req[r].image.h

\* C12: smart_cropped is true in a success record only when smart crop was
\* enabled and the image handed to optimize_for_platform has a smaller width
\* or height than the decoded image; it is false when smart crop is disabled,
\* when smart_crop_gemini declines, and when the focus region is the full
\* image (0,0,1,1).
C12_SmartCroppedMeansPixelsRemoved ==
    \A r \in Runs :
        Succeeded(r) =>
            /\ run[r].result.smart_cropped
               => (req[r].smart_crop_enabled /\ PixelsRemoved(r))
            /\ (~req[r].smart_crop_enabled \/ run[r].loc.box = FullImage)
               => ~run[r].result.smart_cropped

\* The optimized image and the caption sidecar of a run.
OutputOf(r) == output_path(req[r].platform, run[r].id, run[r].ts, req[r].format)
SidecarOf(r) == caption_path(req[r].platform, run[r].id, run[r].ts)

\* C13: once a run has returned, its optimized image and its caption sidecar
\* both exist if it returned a success record, and neither exists if it
\* returned an error record, whatever step failed and whatever platform
\* string was passed.  Runs whose failure came from the storage device alone
\* are left aside.
C13_AssetsIffSuccess ==
    \A r \in Runs :
        (Returned(r) /\ ~run[r].faulted) =>
            /\ Succeeded(r)
               => (OutputOf(r) \in DOMAIN fs /\ SidecarOf(r) \in DOMAIN fs)
            /\ run[r].result.kind = "error"
               => (OutputOf(r) \notin DOMAIN fs /\ SidecarOf(r) \notin DOMAIN fs)

==========================================================================
